---- MODULE Spec2Model ----
(***************************************************************************)
(* ConMenServer: the websocket game server of con_server.py / dto.py.      *)
(*                                                                         *)
(* One asyncio event loop runs one handler coroutine per connection and    *)
(* the game_loop coroutine.  Coroutines are interleaved only at awaits:    *)
(* every action below is the code between two awaits of one coroutine.     *)
(* The websocket transport is the environment: it may close a connection   *)
(* at any time, after which a send on its handle raises and the inbound    *)
(* iterator of its handler ends.                                           *)
(***************************************************************************)
EXTENDS Integers, Sequences, FiniteSets, TLC

\* ---- bounds of the model ------------------------------------------------
MaxConns == 2        \* connections accepted in one behaviour
MaxFrames == 2       \* inbound frames received in one behaviour
MaxRoundConns == 6   \* connections accepted before a behaviour of SpecRounds
MaxVal == 1          \* clients move to (a, a + 1) for a in 1..MaxVal

\* ---- dto.py -------------------------------------------------------------
COP == "COP"
ROBBER == "ROBBER"
None == "None"

\* a create_new_player that takes the id from a constant, not from the caller's uuid4
MutCreateNewPlayer(player_id, wsh) ==
    [playerId |-> 1, x |-> 0, y |-> 0, ws |-> wsh,
     completedStage |-> FALSE, playerType |-> None, username |-> "Anonymous"]

create_new_player(player_id, wsh) ==
    [playerId |-> player_id, x |-> 0, y |-> 0, ws |-> wsh,
     completedStage |-> FALSE, playerType |-> None, username |-> "Anonymous"]

\* a to_dict that reads one coordinate for both
MutToDict(p) ==
    [playerId |-> p.playerId, playerType |-> p.playerType,
     completedStage |-> p.completedStage, username |-> p.username,
     x |-> p.x, y |-> p.x]

to_dict(p) ==
    [playerId |-> p.playerId, playerType |-> p.playerType,
     completedStage |-> p.completedStage, username |-> p.username,
     x |-> p.x, y |-> p.y]

\* ---- state --------------------------------------------------------------
VARIABLES
    players,     \* the registry: a dict, kept as the sequence of its values in insertion order
    game_state,  \* the module-level game_state dict
    pc,          \* pc[c]: where the handler of connection c is ("init", "recv", "done")
    ws,          \* ws[c]: the transport of connection c ("open", "closed")
    sent,        \* sent[c]: what was written on c's handle: the type of the first
                 \* frame, the id the init frames carried, the number of init frames
    gl_pc,       \* where game_loop is ("start", "iter", "sleep", "except", "caught", "dead")
    gl_err,      \* the exception e of the except clause ("none", "send", "size")
    gl_msg,      \* the state message of the tick being sent (NoMsg outside the for loop)
    gl_pos,      \* the dict iterator of the for loop: id of the last record it returned
    gl_size,     \* the dict iterator of the for loop: the dict size it was created with
    gl_got,      \* connections the message of the tick in progress, or cut short, was written to
    nframes,     \* number of inbound frames received so far
    last,        \* the inbound frame received last: [op, c, frame], op "frame" or "raise"
    del_err      \* the exception a del players[...] raised ("none", "KeyError")

vars == <<players, game_state, pc, ws, sent, gl_pc, gl_err, gl_msg, gl_pos,
          gl_size, gl_got, nframes, last, del_err>>

conn_vars == <<pc, ws, sent>>
gl_vars == <<gl_pc, gl_err, gl_msg, gl_pos, gl_size, gl_got>>

\* ---- helpers over the registry ------------------------------------------
Conns == 1..Len(pc)
Ids(ps) == {ps[i].playerId : i \in 1..Len(ps)}
Registered(c) == c \in Ids(players)
Rec(ps, id) == ps[CHOOSE i \in 1..Len(ps) : ps[i].playerId = id]

\* del players[player_id]
DelPlayer(ps, id) == SelectSeq(ps, LAMBDA p : p.playerId # id)

\* del players[player_id] raises KeyError when the key is not in the dict
DelRaises(ps, id) == id \notin Ids(ps)

\* the registry after the handlers of the connections in ids have all run del
DelPlayers(ps, ids) == SelectSeq(ps, LAMBDA p : p.playerId \notin ids)

UpdPlayer(ps, id, f, v) ==
    [i \in 1..Len(ps) |-> IF ps[i].playerId = id THEN [ps[i] EXCEPT ![f] = v] ELSE ps[i]]

\* ---- inbound frames -----------------------------------------------------
Vals == 1..MaxVal
NoFrame == [type |-> "none"]
InvalidJson == [raw |-> "{ invalid json }"]
MoveFrames == {[type |-> "move", dx |-> a, dy |-> a + 1] : a \in Vals}
CompletedFrames == {[type |-> "stageCompleted", stageCompleted |-> b] : b \in BOOLEAN}
StartFrame == [type |-> "startGame"]
UnknownFrame == [type |-> "invalidType"]
MissingFieldFrames ==
    {[type |-> "move", dx |-> 1], [type |-> "move", dy |-> 1],
     [type |-> "stageCompleted"], [dx |-> 1, dy |-> 2]}
MalformedFrames == {InvalidJson} \cup MissingFieldFrames
Frames == MoveFrames \cup CompletedFrames \cup {StartFrame, UnknownFrame} \cup MalformedFrames

HasKey(d, k) == k \in DOMAIN d

\* json.loads(msg): raises on text that is not JSON
JsonLoadsRaises(msg) == HasKey(msg, "raw")

\* ---- start_stage --------------------------------------------------------
MinPlayers == 2
CopsThreshold == 5

\* a start_stage that hands out one cop whatever the player count
MutCopsCount(n) == 1

CopsCount(n) == IF n > CopsThreshold THEN 2 ELSE 1

\* a start_stage whose player-count check is off by one
MutNotEnoughPlayers(n) == n < MinPlayers - 1

NotEnoughPlayers(n) == n < MinPlayers

\* a loop that sets the role of a robber and does not append its id to robbers
MutAssignLoop(ps, gs, i, cops_count) ==
    [players |-> [j \in 1..Len(ps) |->
                    [ps[j] EXCEPT !.playerType = IF j <= cops_count THEN COP ELSE ROBBER]],
     game_state |-> [gs EXCEPT !.cops = @ \o [j \in 1..cops_count |-> ps[j].playerId]]]

\* the for loop of start_stage, from record i on, with cops_count cops left to hand out
RECURSIVE AssignLoop(_, _, _, _)
AssignLoop(ps, gs, i, cops_count) ==
    IF i > Len(ps) THEN [players |-> ps, game_state |-> gs]
    ELSE IF cops_count > 0
         THEN AssignLoop([ps EXCEPT ![i].playerType = COP],
                         [gs EXCEPT !.cops = Append(@, ps[i].playerId)],
                         i + 1, cops_count - 1)
         ELSE AssignLoop([ps EXCEPT ![i].playerType = ROBBER],
                         [gs EXCEPT !.robbers = Append(@, ps[i].playerId)],
                         i + 1, cops_count)

\* a start_stage that is left after its loop, before lines 94-95 have run
MutStartStage(ps, gs) ==
    IF NotEnoughPlayers(Len(ps)) THEN [players |-> ps, game_state |-> gs]
    ELSE AssignLoop(ps, gs, 1, CopsCount(Len(ps)))

start_stage(ps, gs) ==
    IF NotEnoughPlayers(Len(ps)) THEN [players |-> ps, game_state |-> gs]
    ELSE LET r == AssignLoop(ps, gs, 1, CopsCount(Len(ps)))
         IN [players |-> r.players,
             game_state |-> [r.game_state EXCEPT !.stageStarted = TRUE,
                                                 !.stageCompleted = FALSE]]

\* ---- wait_for_client_msgs: one pass of the async for body ---------------
\* a body that raises on a type it does not know
MutBodyRaises(msg) ==
    \/ JsonLoadsRaises(msg)
    \/ ~HasKey(msg, "type")
    \/ msg.type \notin {"move", "stageCompleted", "startGame"}
    \/ msg.type = "move" /\ ~(HasKey(msg, "dx") /\ HasKey(msg, "dy"))
    \/ msg.type = "stageCompleted" /\ ~HasKey(msg, "stageCompleted")

\* TRUE when the body raises (json.loads error, KeyError on a missing field)
BodyRaises(msg) ==
    \/ JsonLoadsRaises(msg)
    \/ ~HasKey(msg, "type")
    \/ msg.type = "move" /\ ~(HasKey(msg, "dx") /\ HasKey(msg, "dy"))
    \/ msg.type = "stageCompleted" /\ ~HasKey(msg, "stageCompleted")

\* a move that stores dx and dy the wrong way round
MutMoveApply(ps, id, data) == UpdPlayer(UpdPlayer(ps, id, "x", data.dy), id, "y", data.dx)

MoveApply(ps, id, data) == UpdPlayer(UpdPlayer(ps, id, "x", data.dx), id, "y", data.dy)

\* a body whose stageCompleted branch also writes game_state["stageCompleted"]
MutBodyApply(ps, gs, player_id, data) ==
    IF data.type = "move"
    THEN [players |-> MoveApply(ps, player_id, data), game_state |-> gs]
    ELSE IF data.type = "stageCompleted"
    THEN [players |-> UpdPlayer(ps, player_id, "completedStage", data.stageCompleted),
          game_state |-> [gs EXCEPT !.stageCompleted = data.stageCompleted]]
    ELSE IF data.type = "startGame"
    THEN start_stage(ps, gs)
    ELSE [players |-> ps, game_state |-> gs]

\* the registry and game_state after the body has run on a frame that does not raise
BodyApply(ps, gs, player_id, data) ==
    IF data.type = "move"
    THEN [players |-> MoveApply(ps, player_id, data), game_state |-> gs]
    ELSE IF data.type = "stageCompleted"
    THEN [players |-> UpdPlayer(ps, player_id, "completedStage", data.stageCompleted),
          game_state |-> gs]
    ELSE IF data.type = "startGame"
    THEN start_stage(ps, gs)
    ELSE [players |-> ps, game_state |-> gs]

\* ---- game_loop ----------------------------------------------------------
NoMsg == [type |-> "none", players |-> <<>>,
          gameState |-> [stageStarted |-> FALSE, stageCompleted |-> FALSE,
                         cops |-> <<>>, robbers |-> <<>>]]

\* a players map that misses the record inserted last
MutBuildMsg(ps, gs) ==
    [type |-> "state",
     players |-> [i \in 1..(Len(ps) - 1) |-> to_dict(ps[i])],
     gameState |-> gs]

\* the state dict (in insertion order) and the json.dumps of the message
BuildMsg(ps, gs) ==
    [type |-> "state",
     players |-> [i \in 1..Len(ps) |-> to_dict(ps[i])],
     gameState |-> gs]

\* a game_loop whose try statement encloses the while loop: an exception ends it
MutAfterCaught == "dead"

\* where game_loop is after its except clause: the try statement is inside
\* while True, so the next iteration follows
AfterCaught == "caught"

\* ---- initial state ------------------------------------------------------
Init ==
    /\ players = <<>>
    /\ game_state = [stageStarted |-> FALSE, stageCompleted |-> FALSE,
                     cops |-> <<>>, robbers |-> <<>>]
    /\ pc = <<>>
    /\ ws = <<>>
    /\ sent = <<>>
    /\ gl_pc = "start"
    /\ gl_err = "none"
    /\ gl_msg = NoMsg
    /\ gl_pos = 0
    /\ gl_size = 0
    /\ gl_got = {}
    /\ nframes = 0
    /\ last = [op |-> "none", c |-> 0, frame |-> NoFrame]
    /\ del_err = "none"

\* ---- handler ------------------------------------------------------------
\* nothing written on a handle yet / the init message of handler written on it
NothingSent == [first |-> "none", id |-> 0, inits |-> 0]
InitSent(player_id) == [first |-> "init", id |-> player_id, inits |-> 1]

\* a handler whose init frame is written only when the send completes, after
\* the task was suspended with the record already inserted
MutAccept(alive) ==
    LET c == Len(pc) + 1 IN
    /\ c <= MaxConns
    /\ players' = Append(players, create_new_player(c, c))
    /\ ws' = Append(ws, IF alive THEN "open" ELSE "closed")
    /\ pc' = Append(pc, IF alive THEN "init" ELSE "done")
    /\ sent' = Append(sent, NothingSent)
    /\ UNCHANGED <<game_state, gl_vars, nframes, last, del_err>>

\* A new connection: the record is inserted and the init send is started.
\* ids are fresh (uuid4); the model numbers them in order of arrival.
\* alive = FALSE: the transport is already lost and the send raises at once,
\* which leaves handler before its try statement is entered.
Accept(alive) ==
    LET c == Len(pc) + 1 IN
    /\ c <= MaxConns
    /\ players' = Append(players, create_new_player(c, c))
    /\ ws' = Append(ws, IF alive THEN "open" ELSE "closed")
    /\ pc' = Append(pc, IF alive THEN "init" ELSE "done")
    /\ sent' = Append(sent, IF alive THEN InitSent(c) ELSE NothingSent)
    /\ UNCHANGED <<game_state, gl_vars, nframes, last, del_err>>

\* await ws.send(init) returns: the handler enters wait_for_client_msgs
InitSendReturn(c) ==
    /\ pc[c] = "init"
    /\ pc' = [pc EXCEPT ![c] = "recv"]
    /\ UNCHANGED <<players, game_state, ws, sent, gl_vars, nframes, last, del_err>>

\* await ws.send(init) raises (transport lost while the send was pending):
\* the exception leaves handler before its try statement is entered
InitSendRaise(c) ==
    /\ pc[c] = "init"
    /\ ws[c] = "closed"
    /\ pc' = [pc EXCEPT ![c] = "done"]
    /\ UNCHANGED <<players, game_state, ws, sent, gl_vars, nframes, last, del_err>>

\* the environment: the client closes or the transport fails
WsClose(c) ==
    /\ pc[c] \in {"init", "recv"}
    /\ ws[c] = "open"
    /\ ws' = [ws EXCEPT ![c] = "closed"]
    /\ UNCHANGED <<players, game_state, pc, sent, gl_vars, nframes, last, del_err>>

\* the except / finally clauses of handler, then its return (the library
\* closes the connection of a handler that returned)
HandlerExit(c) ==
    /\ players' = DelPlayer(players, c)
    /\ del_err' = IF DelRaises(players, c) THEN "KeyError" ELSE del_err
    /\ pc' = [pc EXCEPT ![c] = "done"]
    /\ ws' = [ws EXCEPT ![c] = "closed"]

\* one inbound frame is received and the body of the async for runs on it
Recv(c, msg) ==
    /\ pc[c] = "recv"
    /\ ws[c] = "open"
    /\ nframes < MaxFrames
    /\ nframes' = nframes + 1
    /\ last' = [op |-> IF BodyRaises(msg) THEN "raise" ELSE "frame", c |-> c, frame |-> msg]
    /\ IF BodyRaises(msg)
       THEN /\ HandlerExit(c)
            /\ UNCHANGED game_state
       ELSE LET r == BodyApply(players, game_state, c, msg) IN
            /\ players' = r.players
            /\ game_state' = r.game_state
            /\ UNCHANGED <<pc, ws, del_err>>
    /\ UNCHANGED <<sent, gl_vars>>

\* the inbound iterator ends or raises ConnectionClosed
RecvClosed(c) ==
    /\ pc[c] = "recv"
    /\ ws[c] = "closed"
    /\ HandlerExit(c)
    /\ UNCHANGED <<game_state, sent, gl_vars, nframes, last>>

\* ---- game_loop actions --------------------------------------------------
\* game_loop leaves its for loop: by an exception (err) to the except clause,
\* or normally to asyncio.sleep
LeaveFor(to, err, got) ==
    /\ gl_pc' = to
    /\ gl_err' = err
    /\ gl_msg' = NoMsg
    /\ gl_pos' = 0
    /\ gl_size' = 0
    /\ gl_got' = got
    /\ UNCHANGED sent

\* the for loop over players.values(), from the iterator (pos, size) on, up
\* to the next await: the iterator raises when the dict changed size, the
\* send raises on a closed handle, and the loop ends in asyncio.sleep.
\* ids grow in insertion order, so the record after pos is the least id above it.
Iterate(msg, pos, size, got) ==
    LET rest == {id \in Ids(players) : id > pos} IN
    /\ IF Len(players) # size
       THEN LeaveFor("except", "size", got)
       ELSE IF rest = {}
       THEN LeaveFor("sleep", "none", {})
       ELSE LET id == CHOOSE i \in rest : \A j \in rest : i <= j
                h == Rec(players, id).ws IN
            IF ws[h] = "open"
            THEN /\ gl_pc' = "iter"
                 /\ gl_err' = "none"
                 /\ gl_msg' = msg
                 /\ gl_pos' = id
                 /\ gl_size' = size
                 /\ gl_got' = got \cup {h}
                 /\ sent' = [sent EXCEPT ![h].first = IF @ = "none" THEN "state" ELSE @]
            ELSE LeaveFor("except", "send", got)
    /\ UNCHANGED <<players, game_state, pc, ws, nframes, last, del_err>>

\* a new iteration of while True: build the message, start the for loop
Tick ==
    /\ gl_pc \in {"start", "sleep", "caught"}
    /\ Iterate(BuildMsg(players, game_state), 0, Len(players), {})

\* a pending send returned: the for loop goes on
Continue ==
    /\ gl_pc = "iter"
    /\ Iterate(gl_msg, gl_pos, gl_size, gl_got)

\* the except clause: the error is printed
Catch ==
    /\ gl_pc = "except"
    /\ gl_pc' = AfterCaught
    /\ gl_err' = "none"
    /\ UNCHANGED <<players, game_state, conn_vars, gl_msg, gl_pos, gl_size, gl_got,
                   nframes, last, del_err>>

\* ---- specifications -----------------------------------------------------
\* one step of the server whose clients send frames of the set F
Step(F) ==
    \/ \E alive \in BOOLEAN : Accept(alive)
    \/ \E c \in Conns : InitSendReturn(c)
    \/ \E c \in Conns : InitSendRaise(c)
    \/ \E c \in Conns : WsClose(c)
    \/ \E c \in Conns, msg \in F : Recv(c, msg)
    \/ \E c \in Conns : RecvClosed(c)
    \/ Tick
    \/ Continue
    \/ Catch

Next == Step(Frames)

Spec == Init /\ [][Next]_vars

\* ---- clients that move and start rounds -------------------------------------
IntentFrames == MoveFrames \cup {StartFrame}

NextIntent == Step(IntentFrames)

SpecIntent == Init /\ [][NextIntent]_vars

\* ---- clients that send nothing the server understands ----------------------
NextConn == Step({InvalidJson, UnknownFrame})

SpecConn == Init /\ [][NextConn]_vars

\* ---- frames of an unknown type among moves ---------------------------------
UnknownAndMoveFrames == {UnknownFrame} \cup MoveFrames

NextUnknown == Step(UnknownAndMoveFrames)

SpecUnknown == Init /\ [][NextUnknown]_vars

\* ---- one frame of every kind ------------------------------------------------
KindFrames ==
    {[type |-> "move", dx |-> 1, dy |-> 2], [type |-> "stageCompleted", stageCompleted |-> TRUE],
     StartFrame, UnknownFrame, InvalidJson}

NextKinds == Step(KindFrames)

SpecKinds == Init /\ [][NextKinds]_vars

\* ---- rounds with many players ---------------------------------------------
\* n connections were accepted and have received their init message; the
\* connections of the set gone have since been closed and cleaned up
InitRounds ==
    \E n \in 1..MaxRoundConns :
    \E gone \in {{}} \cup {{g} : g \in 1..n} :
        /\ players = DelPlayers([i \in 1..n |-> create_new_player(i, i)], gone)
        /\ game_state = [stageStarted |-> FALSE, stageCompleted |-> FALSE,
                         cops |-> <<>>, robbers |-> <<>>]
        /\ pc = [i \in 1..n |-> IF i \in gone THEN "done" ELSE "recv"]
        /\ ws = [i \in 1..n |-> IF i \in gone THEN "closed" ELSE "open"]
        /\ sent = [i \in 1..n |-> InitSent(i)]
        /\ gl_pc = "start"
        /\ gl_err = "none"
        /\ gl_msg = NoMsg
        /\ gl_pos = 0
        /\ gl_size = 0
        /\ gl_got = {}
        /\ nframes = 0
        /\ last = [op |-> "none", c |-> 0, frame |-> NoFrame]
        /\ del_err = "none"

RoundFrames == {StartFrame, [type |-> "stageCompleted", stageCompleted |-> TRUE]}

NextRounds == \E c \in Conns, msg \in RoundFrames : Recv(c, msg)

SpecRounds == InitRounds /\ [][NextRounds]_vars

\* ---- the del statement on its own ------------------------------------------
\* del players[player_id] of handler's finally clause, applied to any id on a
\* registry of InitRounds: the statement raises KeyError on an absent key and
\* removes the record otherwise
Del(id) ==
    /\ players' = IF DelRaises(players, id) THEN players ELSE DelPlayer(players, id)
    /\ del_err' = IF DelRaises(players, id) THEN "KeyError" ELSE del_err
    /\ UNCHANGED <<game_state, conn_vars, gl_vars, nframes, last>>

NextDel == \E id \in 1..MaxRoundConns : Del(id)

SpecDel == InitRounds /\ [][NextDel]_vars

\* Every coroutine that is ready is run by the event loop: game_loop and the
\* handlers' own steps are fair; what clients and the network do is not.
FairSpec ==
    /\ Spec
    /\ WF_vars(Tick)
    /\ WF_vars(Continue)
    /\ WF_vars(Catch)
    /\ \A c \in 1..MaxConns : WF_vars(c \in Conns /\ InitSendReturn(c))
    /\ \A c \in 1..MaxConns : WF_vars(c \in Conns /\ RecvClosed(c))

\* ---- vocabulary of the properties ---------------------------------------
SeqToSet(q) == {q[i] : i \in 1..Len(q)}
NoDups(q) == \A i, j \in 1..Len(q) : q[i] = q[j] => i = j

\* this step received a frame / a startGame frame / one with at least 2
\* players registered / one with fewer / a move frame
RecvStep == nframes' # nframes
StartStep == RecvStep /\ last'.op = "frame" /\ last'.frame = StartFrame
StartOkStep == StartStep /\ Len(players) >= 2
StartRejectedStep == StartStep /\ Len(players) < 2
MoveStep == RecvStep /\ last'.op = "frame" /\ last'.frame \in MoveFrames

\* this step is one of game_loop
LoopStep == gl_vars' # gl_vars

\* no record of a finished handler is in the registry
NoLeakedRecord == \A c \in Conns : pc[c] = "done" => ~Registered(c)

\* ---- C1 -------------------------------------------------------------------
\* C1: every termination path of a connection removes its record: no registry
\* record belongs to a connection whose handler has finished.
C1_NoRecordOutlivesHandler ==
    \A c \in Conns : pc[c] = "done" => ~Registered(c)

\* ---- C2 -------------------------------------------------------------------
\* C2: a malformed inbound frame is absorbed: after it the connection is still
\* open, its handler is still receiving and its record is still registered.
C2_MalformedFrameAbsorbed ==
    last.op = "raise" =>
        /\ pc[last.c] = "recv"
        /\ ws[last.c] = "open"
        /\ Registered(last.c)

\* ---- C3 -------------------------------------------------------------------
\* C3: a send failure does not abort a tick's delivery: when a failed send
\* has taken game_loop out of its for loop, every registered connection whose
\* handle is open was sent that tick's message (stated for the registries
\* that hold no record of a finished handler).
C3_SendFailureDoesNotAbortTick ==
    [][(NoLeakedRecord /\ LoopStep /\ gl_pc' = "except" /\ gl_err' = "send") =>
          \A c \in Conns : (Registered(c) /\ ws[c] = "open") => c \in gl_got']_vars

\* ---- C4 -------------------------------------------------------------------
\* C4: after every successful startGame with n registered players, cops holds
\* exactly k ids (k = 2 if n > 5 else 1), robbers exactly n - k, both without
\* duplicates, disjoint, and together exactly the registered ids (stated for
\* the registries that hold no record of a finished handler).
C4_StartOverwritesAssignment ==
    [][(NoLeakedRecord /\ StartOkStep) =>
          LET n == Len(players)
              k == IF n > 5 THEN 2 ELSE 1
          IN /\ Len(game_state'.cops) = k
             /\ Len(game_state'.robbers) = n - k
             /\ NoDups(game_state'.cops)
             /\ NoDups(game_state'.robbers)
             /\ SeqToSet(game_state'.cops) \cap SeqToSet(game_state'.robbers) = {}
             /\ SeqToSet(game_state'.cops) \cup SeqToSet(game_state'.robbers) = Ids(players)
      ]_vars

\* ---- C5 -------------------------------------------------------------------
\* C5: after a successful startGame every registered player's completedStage
\* is false (stated for the registries that hold no record of a finished
\* handler).
C5_StartResetsCompleted ==
    [][(NoLeakedRecord /\ StartOkStep) => \A i \in 1..Len(players') : ~players'[i].completedStage]_vars

\* ---- C6 -------------------------------------------------------------------
\* C6: a startGame received with fewer than 2 registered players changes
\* neither game_state nor the registry nor any connection, and stageStarted
\* turns true only in a startGame step taken with at least 2 registered players.
C6_RejectedStartIsNoOp ==
    [][ /\ StartRejectedStep =>
              /\ game_state' = game_state
              /\ players' = players
              /\ pc' = pc
              /\ ws' = ws
        /\ (~game_state.stageStarted /\ game_state'.stageStarted) => StartOkStep
      ]_vars

C6_Witness ==
    /\ last.op = "frame" /\ last.frame = StartFrame
    /\ nframes = 1
    /\ Len(players) = 1
    /\ pc[last.c] = "recv"
    /\ ws[last.c] = "open"
    /\ ~game_state.stageStarted

\* ---- C7 -------------------------------------------------------------------
\* C7: after a successful startGame with n registered players the first k in
\* registry order are cops (k = 2 if n > 5 else 1), all others are robbers,
\* and game_state has stageStarted true and stageCompleted false.
C7_RolesAfterStart ==
    [][StartOkStep =>
          LET n == Len(players')
              k == IF n > 5 THEN 2 ELSE 1
          IN /\ n = Len(players)
             /\ \A i \in 1..n : /\ players'[i].playerId = players[i].playerId
                                /\ players'[i].playerType = IF i <= k THEN COP ELSE ROBBER
             /\ Cardinality({i \in 1..n : players'[i].playerType = COP}) = k
             /\ game_state'.stageStarted
             /\ ~game_state'.stageCompleted
      ]_vars

C7_Witness ==
    /\ last.op = "frame" /\ last.frame = StartFrame
    /\ game_state.stageStarted
    /\ Len(players) > 5
    /\ players[1].playerType = COP
    /\ players[2].playerType = COP
    /\ \A i \in 3..Len(players) : players[i].playerType = ROBBER

\* ---- C8 -------------------------------------------------------------------
\* C8: under fair scheduling, a connection that stays open for ever (handler
\* receiving, transport open) is sent state messages infinitely often.
C8_BroadcastLiveness ==
    \A c \in 1..MaxConns :
        <>[](c \in Conns /\ pc[c] = "recv" /\ ws[c] = "open") => []<>(c \in gl_got)

\* ---- C9 -------------------------------------------------------------------
\* C9: game_loop never ends: in every state it is at a point it continues
\* from, also after it caught a failed send or a changed registry; a step of
\* game_loop ends no handler, and a step that ends one handler ends no other.
C9_BroadcasterNeverStops ==
    /\ [](gl_pc \in {"start", "iter", "sleep", "except", "caught"})
    /\ [](gl_err # "none" <=> gl_pc = "except")
    /\ [][(LoopStep /\ gl_pc = "except") => gl_pc' = "caught"]_vars
    /\ [][LoopStep => pc' = pc]_vars
    /\ [][\A c, d \in Conns :
              (c # d /\ pc[c] # "done" /\ pc'[c] = "done") => pc'[d] = pc[d]]_vars

C9_Witness ==
    /\ gl_pc = "caught"
    /\ \E c \in Conns : pc[c] = "recv" /\ ws[c] = "open" /\ c \notin gl_got

\* ---- C10 ------------------------------------------------------------------
\* C10: a move frame of player P sets P's x, y to the frame's dx, dy and
\* changes nothing else; a message built by game_loop reports every player
\* at its registry position; x, y of a player change only in a move step of
\* that player's own connection.
C10_MoveSetsOwnPosition ==
    [][ /\ MoveStep =>
              /\ Len(players') = Len(players)
              /\ \A i \in 1..Len(players) :
                    IF players[i].playerId = last'.c
                    THEN players'[i] = [players[i] EXCEPT !.x = last'.frame.dx,
                                                          !.y = last'.frame.dy]
                    ELSE players'[i] = players[i]
              /\ game_state' = game_state
        /\ (gl_pc # "iter" /\ gl_pc' = "iter") =>
              /\ Len(gl_msg'.players) = Len(players)
              /\ \A i \in 1..Len(players) :
                    /\ gl_msg'.players[i].playerId = players[i].playerId
                    /\ gl_msg'.players[i].x = players[i].x
                    /\ gl_msg'.players[i].y = players[i].y
        /\ \A i \in 1..Len(players), j \in 1..Len(players') :
              (/\ players[i].playerId = players'[j].playerId
               /\ (players[i].x # players'[j].x \/ players[i].y # players'[j].y))
                  => (MoveStep /\ last'.c = players[i].playerId)
      ]_vars

C10_Witness ==
    /\ gl_pc = "iter"
    /\ Len(gl_msg.players) = 2
    /\ \E i, j \in 1..2 :
          /\ gl_msg.players[i].x = 1 /\ gl_msg.players[i].y = 2
          /\ gl_msg.players[j].x = 0 /\ gl_msg.players[j].y = 0

\* ---- C11 ------------------------------------------------------------------
\* every connection still served by its handler, with its transport open
StillOpen(c) == pc[c] \in {"init", "recv"} /\ ws[c] = "open"

\* C11: whatever the interleaving of connects and broadcaster ticks, the ids
\* issued to different connections differ, no two registry records share an
\* id, and while every accepted connection is still open the registry holds
\* exactly one record per connection.
C11_DistinctIdsOneRecordEach ==
    /\ NoDups([i \in 1..Len(players) |-> players[i].playerId])
    /\ \A c, d \in Conns :
          (sent[c].inits > 0 /\ sent[d].inits > 0 /\ c # d) => sent[c].id # sent[d].id
    /\ (\A c \in Conns : StillOpen(c)) =>
          /\ Len(players) = Len(pc)
          /\ \A c \in Conns : sent[c].id \in Ids(players)

C11_Witness ==
    /\ Len(pc) = 2
    /\ \A c \in Conns : StillOpen(c)
    /\ Len(players) = 2
    /\ gl_pc = "iter"
    /\ pc[1] = "recv" /\ pc[2] = "init"

UnknownStep == RecvStep /\ last'.frame = UnknownFrame

\* C13: a frame of an unknown type is ignored: the registry and the game state
\* are unchanged, the connection stays open with its handler still receiving
\* and its record registered, and a move that follows on the same connection
\* is applied.
C13_UnknownTypeIgnored ==
    [][ /\ UnknownStep =>
              /\ last'.op = "frame"
              /\ players' = players
              /\ game_state' = game_state
              /\ pc' = pc /\ ws' = ws
              /\ pc'[last'.c] = "recv" /\ ws'[last'.c] = "open"
              /\ last'.c \in Ids(players')
        /\ (MoveStep /\ last.frame = UnknownFrame /\ last.c = last'.c) =>
              /\ Rec(players', last'.c).x = last'.frame.dx
              /\ Rec(players', last'.c).y = last'.frame.dy
      ]_vars

C13_Witness ==
    /\ last.op = "frame"
    /\ last.frame = UnknownFrame
    /\ pc[last.c] = "recv" /\ ws[last.c] = "open"
    /\ Registered(last.c)
    /\ Rec(players, last.c).x = 1 /\ Rec(players, last.c).y = 2
    /\ nframes = 2

ChangedTickEnds ==
    /\ LoopStep
    /\ gl_pc = "iter" /\ gl_pc' # "iter"
    /\ gl_err' # "send"
    /\ Ids(gl_msg.players) # Ids(players)

\* C15: an insert or a delete made by a connection task while game_loop is
\* suspended in a send does not cut the tick short: when the tick ends, every
\* open connection that was registered when the tick began and still is has
\* received the tick's state message.
C15_RegistryChangeKeepsTick ==
    [][ (NoLeakedRecord /\ ChangedTickEnds) =>
            \A c \in Conns :
                (c \in Ids(gl_msg.players) /\ Registered(c) /\ ws[c] = "open")
                    => c \in gl_got
      ]_vars

\* ---- C16 ------------------------------------------------------------------
\* the fields of a player that a state message shows
ShownFields == {"playerId", "playerType", "completedStage", "username", "x", "y"}

\* the positions a player can have: the initial one or the one of a whole move
WholePositions == {<<0, 0>>} \cup {<<f.dx, f.dy>> : f \in MoveFrames}

\* C16: every state message sent is a snapshot of one instant: when game_loop
\* builds it, its players map shows every registry record as it stands and its
\* gameState is the game state as it stands; the message does not change while
\* it is being sent; and no message shows a position that mixes two moves, or
\* roles and lists of a startGame that has not finished.
C16_MessageIsSnapshot ==
    /\ [][ /\ (gl_pc # "iter" /\ gl_pc' = "iter") =>
                 /\ gl_msg'.type = "state"
                 /\ gl_msg'.gameState = game_state
                 /\ Len(gl_msg'.players) = Len(players)
                 /\ \A i \in 1..Len(players) : \A f \in ShownFields :
                       gl_msg'.players[i][f] = players[i][f]
                 /\ players' = players /\ game_state' = game_state
           /\ (gl_pc = "iter" /\ gl_pc' = "iter") => gl_msg' = gl_msg
         ]_vars
    /\ [](gl_pc = "iter" =>
            LET m == gl_msg IN
            /\ \A i \in 1..Len(m.players) :
                  /\ <<m.players[i].x, m.players[i].y>> \in WholePositions
                  /\ m.players[i].playerType = COP
                        => m.players[i].playerId \in SeqToSet(m.gameState.cops)
                  /\ m.players[i].playerType = ROBBER
                        => m.players[i].playerId \in SeqToSet(m.gameState.robbers)
                  /\ m.players[i].playerType # None => m.gameState.stageStarted
            /\ m.gameState.stageStarted <=> m.gameState.cops # <<>>
            /\ m.gameState.stageStarted <=> m.gameState.robbers # <<>>)

C16_Witness ==
    /\ gl_pc = "iter"
    /\ gl_msg.gameState.stageStarted
    /\ Len(gl_msg.players) = 2
    /\ gl_msg.players[1].playerType = COP
    /\ gl_msg.players[2].playerType = ROBBER
    /\ \E i \in 1..2 : gl_msg.players[i].x = 1 /\ gl_msg.players[i].y = 2
    /\ nframes = 2

\* ---- C17 ------------------------------------------------------------------
\* the ids of the records i..j of a registry, in registry order
IdsFromTo(ps, i, j) == [n \in 1..(j - i + 1) |-> ps[n + i - 1].playerId]

\* C17: startGame frames of different connections are served one at a time:
\* the step that serves one runs start_stage from its first line to its last
\* on the registry and game state as they stand, and nothing else (no connect,
\* disconnect or game_loop step) happens in it; so every game state is the
\* outcome of the calls in the order they were served, and no state shows a
\* start_stage that has begun and not ended.
C17_StartsAreSerialized ==
    /\ [][StartOkStep =>
            LET n == Len(players)
                k == IF n > CopsThreshold THEN 2 ELSE 1
            IN /\ Len(players') = n
               /\ \A i \in 1..n :
                     players'[i] = [players[i] EXCEPT
                                       !.playerType = IF i <= k THEN COP ELSE ROBBER]
               /\ game_state'.cops = game_state.cops \o IdsFromTo(players, 1, k)
               /\ game_state'.robbers = game_state.robbers \o IdsFromTo(players, k + 1, n)
               /\ game_state'.stageStarted
               /\ ~game_state'.stageCompleted
               /\ UNCHANGED <<pc, ws, sent, gl_vars, del_err>>
         ]_vars
    /\ [](game_state.stageStarted <=> game_state.cops # <<>>)
    /\ [](game_state.stageStarted <=> game_state.robbers # <<>>)
    /\ [](Len(game_state.cops) <= nframes)

C17_Witness ==
    /\ nframes = 2
    /\ last.op = "frame" /\ last.frame = StartFrame /\ last.c = 2
    /\ game_state.cops = <<1, 1>>
    /\ game_state.robbers = <<2, 2>>
    /\ pc = <<"recv", "recv">>
    /\ gl_pc = "iter"

\* ---- C18 ------------------------------------------------------------------
\* C18: only a successful startGame changes the game phase or a role: every
\* other step (a connect, a disconnect, a move, a stageCompleted, a frame of
\* unknown type, a malformed frame, a rejected startGame, a step of game_loop)
\* leaves stageStarted, stageCompleted, cops and robbers as they are, and
\* leaves the role of every player registered before and after it as it is.
C18_OnlyStartChangesPhase ==
    [][ ~StartOkStep =>
            /\ game_state'.stageStarted = game_state.stageStarted
            /\ game_state'.stageCompleted = game_state.stageCompleted
            /\ game_state'.cops = game_state.cops
            /\ game_state'.robbers = game_state.robbers
            /\ \A i \in 1..Len(players), j \in 1..Len(players') :
                  players[i].playerId = players'[j].playerId
                      => players'[j].playerType = players[i].playerType
      ]_vars

C18_Witness ==
    /\ game_state.stageStarted
    /\ game_state.cops = <<1>> /\ game_state.robbers = <<2>>
    /\ last.op = "raise" /\ last.c = 2
    /\ Len(players) = 1
    /\ players[1].playerId = 1 /\ players[1].playerType = COP
    /\ gl_pc = "iter"

\* ---- C19 ------------------------------------------------------------------
\* the ids in the players map of a state message / in its cops and robbers lists
ShownIds(m) == {m.players[i].playerId : i \in 1..Len(m.players)}
ListedIds(gs) == SeqToSet(gs.cops) \cup SeqToSet(gs.robbers)

\* C19: in every state message sent, cops and robbers name only players that
\* are in the players map of the same message: the id of a player that has
\* disconnected is in neither list of a later message.
C19_ListsNameShownPlayers ==
    gl_pc = "iter" => ListedIds(gl_msg.gameState) \subseteq ShownIds(gl_msg)

\* C19 as amended: in every state message sent, cops and robbers name only
\* ids that were issued to connections, and a listed id that is not in the
\* players map of the same message is the id of a player that has disconnected
\* (its handler has ended); such an id stays in the lists.
C19_ListsNameShownOrGonePlayers ==
    gl_pc = "iter" =>
        \A id \in ListedIds(gl_msg.gameState) :
            /\ id \in Conns
            /\ id \notin ShownIds(gl_msg) => pc[id] = "done"

C19_Witness ==
    /\ gl_pc = "iter"
    /\ \E id \in ListedIds(gl_msg.gameState) :
          /\ id \notin ShownIds(gl_msg)
          /\ pc[id] = "done"
          /\ ~Registered(id)

====
